---- MODULE Spec2Model ----
(***************************************************************************)
(* A model of the record chain of shumy-tools/fdc: the Schnorr-signed,     *)
(* hash-linked, encrypted records of fdc-core (model/records.rs,           *)
(* crypto/keys.rs, crypto/signatures.rs), the RecordChain of               *)
(* fdc-client-api (lib.rs), and the Shamir sharing and the operators of    *)
(* crypto/shares.rs and crypto/macros.rs.                                  *)
(*                                                                         *)
(* Byte strings are sequences of integers.  A raw byte is a natural        *)
(* number; the negative numbers are markers that no raw byte equals:       *)
(*   -1 .. -2   open and close a SHA-512 digest: the digest of x is x in   *)
(*              the brackets, so that two digests are equal exactly when   *)
(*              their inputs are (SHA-512 idealised as collision free);    *)
(*   -3 .. -5   open, split and close an AES-CBC ciphertext: the key, then *)
(*              the IV and the plaintext (the cipher idealised: a          *)
(*              ciphertext opens under its own key and under no other).    *)
(* The Ristretto group is the additive group of the integers modulo the    *)
(* prime Q: a point is its discrete logarithm to the base G, a scalar is   *)
(* an element of the field of Q elements.                                  *)
(***************************************************************************)
EXTENDS Integers, Sequences, FiniteSets, Bags, TLC

\* The longest chain the model builds.
MaxChain == 2

\* The secrets of the calls are 0..MaxSecret and Q - 1; the digests signed are
\* the SHA-512 of the one-byte messages 0..MaxDigest.
MaxSecret == 3
MaxDigest == 4

\* The highest degree of a sharing polynomial; a polynomial of degree t is
\* shared among 3t + 1 parties.
MaxDegree == 2

\* The order of the group and of its scalar field (a prime).
Q == 46337

-----------------------------------------------------------------------------
(* crypto/keys.rs : scalars and points *)

\* keys.rs:25, the base point.
G == 1

\* keys.rs:129-134, SecretKey + SecretKey.
AddSS(a, b) == (a + b) % Q

\* keys.rs:144-149, SecretKey - SecretKey.
SubSS(a, b) == (a + Q - b) % Q

\* keys.rs:159-164, SecretKey * SecretKey.
MulSS(a, b) == (a * b) % Q

\* keys.rs:174-179, SecretKey * PublicKey.
MulSP(s, P) == (s * P) % Q

\* keys.rs:226-231, PublicKey + PublicKey.
AddPP(P, R) == (P + R) % Q

\* keys.rs:83-85, the 32 bytes of a scalar.
SecretBytes(s) == <<s>>

\* keys.rs:211-214, the 32 bytes of a compressed point (no scalar's bytes).
PointBytes(P) == <<Q + P>>

\* Sha512::new().chain(..).result() of the concatenated input x.
Sha512(x) == <<-1>> \o x \o <<-2>>

\* What byte v at place i adds to the reduction of a digest.
ByteTerm(v, i) ==
  ((((v + 8) % Q) + (1000 * ((v + 8) \div Q))) * (((i * i) + (7 * i) + 1) % Q)) % Q

\* SecretKey::from_hash reducing only the three leading bytes of the digest.
FromHashOfLeadingBytes(d) ==
  BagCardinality([i \in 1..(IF Len(d) < 3 THEN Len(d) ELSE 3) |->
                    1 + ByteTerm(d[i], i)]) % Q

\* keys.rs:87-91, SecretKey::from_hash: the digest reduced into the field
\* (Scalar::from_bytes_mod_order_wide): the sum modulo Q of what its bytes add
\* (the sum taken as the size of the bag of the terms).
FromHash(d) ==
  BagCardinality([i \in 1..Len(d) |-> 1 + ByteTerm(d[i], i)]) % Q

\* keys.rs:264-270, the key pair of a secret.
KeyPairOf(s) == [secret |-> s, key |-> MulSP(s, G)]

\* keys.rs:293-300, LambdaKey::new(alpha, salt).
LambdaKeyNew(alpha, salt) == Sha512(PointBytes(alpha) \o salt)

\* keys.rs:302-304, LambdaKey::k128: the leading bytes of the digest (the
\* digest without its end).
K128(lambda) == SubSeq(lambda, 1, Len(lambda) - 1)

-----------------------------------------------------------------------------
(* crypto/keys.rs : encode, decode and KeyPair::load.  A base64 text is the
   sequence of the base-64 digits (0..63) of the bytes, three to a unit of 32
   bytes. *)

Base64Encode(b) ==
  [n \in 1..(3 * Len(b)) |->
     LET v == b[(n + 2) \div 3]
     IN  CASE n % 3 = 1 -> v \div 4096
           [] n % 3 = 2 -> (v \div 64) % 64
           [] OTHER     -> v % 64]

\* base64::decode: an error for a character that is no digit, or a length that
\* is no whole number of units.
Base64Decode(t) ==
  IF Len(t) % 3 # 0 \/ \E n \in 1..Len(t) : t[n] \notin 0..63
  THEN [ok |-> FALSE, val |-> <<>>]
  ELSE [ok |-> TRUE,
        val |-> [k \in 1..(Len(t) \div 3) |->
                   (4096 * t[(3 * k) - 2]) + (64 * t[(3 * k) - 1]) + t[3 * k]]]

ErrSecretBase64 == "SecretKey: Unable to decode base64 input!"
ErrSecretShort == "SecretKey: Decoded value is less than 32 bytes!"
ErrSecretScalar == "SecretKey: Unable to decode Scalar!"
ErrPublicBase64 == "PublicKey: Unable to decode base64 input!"
ErrPublicShort == "PublicKey: Decoded value is less than 32 bytes!"
ErrPublicPoint == "PublicKey: Unable to decompress RistrettoPoint!"

\* keys.rs:64-66, SecretKey::encode.
SecretKeyEncode(s) == Base64Encode(SecretBytes(s))

\* keys.rs:68-81, SecretKey::decode; the canonical bytes of a scalar are those
\* below the order.
SecretKeyDecode(t) ==
  LET data == Base64Decode(t)
  IN  IF ~data.ok THEN [err |-> ErrSecretBase64, val |-> 0]
      ELSE IF Len(data.val) < 1 THEN [err |-> ErrSecretShort, val |-> 0]
      ELSE IF data.val[1] \notin 0..(Q - 1) THEN [err |-> ErrSecretScalar, val |-> 0]
      ELSE [err |-> "Ok", val |-> data.val[1]]

\* keys.rs:192-194, PublicKey::encode.
PublicKeyEncode(P) == Base64Encode(PointBytes(P))

\* keys.rs:196-209, PublicKey::decode.
PublicKeyDecode(t) ==
  LET data == Base64Decode(t)
  IN  IF ~data.ok THEN [err |-> ErrPublicBase64, val |-> 0]
      ELSE IF Len(data.val) < 1 THEN [err |-> ErrPublicShort, val |-> 0]
      ELSE IF data.val[1] \notin Q..((2 * Q) - 1) THEN [err |-> ErrPublicPoint, val |-> 0]
      ELSE [err |-> "Ok", val |-> data.val[1] - Q]

\* keys.rs:272-277, KeyPair::load.
KeyPairLoad(secret, key) ==
  LET s == SecretKeyDecode(secret)
      k == PublicKeyDecode(key)
  IN  IF s.err # "Ok" THEN [err |-> s.err, kp |-> KeyPairOf(0)]
      ELSE IF k.err # "Ok" THEN [err |-> k.err, kp |-> KeyPairOf(0)]
      ELSE [err |-> "Ok", kp |-> [secret |-> s.val, key |-> k.val]]

\* The memory of a SecretKey is the 32 bytes of its scalar; that of a LambdaKey
\* is the buffer buf of its Vec<u8>, of which the first len bytes are in use.
SecretKeyMemory(s) == SecretBytes(s)
LambdaKeyMemory(lambda) == [buf |-> lambda, len |-> Len(lambda)]

\* keys.rs:102-106, Drop for SecretKey: Clear::clear of the scalar overwrites
\* its bytes with zeros.
SecretKeyDrop(mem) == [i \in 1..Len(mem) |-> 0]

\* keys.rs:286-290, Drop for LambdaKey: clear() of a Vec<u8> sets its length to 0
\* and writes nothing to the buffer, which is then freed as it is.
LambdaKeyDrop(mem) == [buf |-> mem.buf, len |-> 0]

-----------------------------------------------------------------------------
(* crypto/signatures.rs *)

\* Signature::sign with p = m + c * s in place of m - c * s.
SignatureSignAdds(kp, dhash) ==
  LET m == FromHash(Sha512(SecretBytes(kp.secret) \o dhash))
      M == MulSP(m, G)
      c == FromHash(Sha512(PointBytes(kp.key) \o PointBytes(M) \o dhash))
      p == AddSS(m, MulSS(c, kp.secret))
  IN  [c |-> c, p |-> p]

\* signatures.rs:18-35, Signature::sign.
SignatureSign(kp, dhash) ==
  LET m == FromHash(Sha512(SecretBytes(kp.secret) \o dhash))
      M == MulSP(m, G)
      c == FromHash(Sha512(PointBytes(kp.key) \o PointBytes(M) \o dhash))
      p == SubSS(m, MulSS(c, kp.secret))
  IN  [c |-> c, p |-> p]

\* signatures.rs:37-47, Signature::verify.
SignatureVerify(sig, key, dhash) ==
  LET M == AddPP(MulSP(sig.c, key), MulSP(sig.p, G))
      c == FromHash(Sha512(PointBytes(key) \o PointBytes(M) \o dhash))
  IN  c = sig.c

\* signatures.rs:60-63, ExtSignature::sign.
ExtSign(kp, dhash) == [sig |-> SignatureSign(kp, dhash), key |-> kp.key]

\* signatures.rs:65-67, ExtSignature::verify.
ExtVerify(es, dhash) == SignatureVerify(es.sig, es.key, dhash)

-----------------------------------------------------------------------------
(* crypto/shares.rs : Shamir sharing over the scalar field *)

\* keys.rs:60-62, SecretKey::invert (Scalar::invert is a^(Q-2); of zero, zero).
RECURSIVE PowSS(_, _)
PowSS(a, e) ==
  IF e = 0 THEN 1
  ELSE LET h == PowSS(a, e \div 2)
       IN  IF e % 2 = 0 THEN MulSS(h, h) ELSE MulSS(MulSS(h, h), a)

Invert(a) == PowSS(a, Q - 2)

\* keys.rs:108-118, SecretKey::from(u32 / u64).
FromInt(x) == x % Q

\* shares.rs:203-209, Polynomial::rand; rnd is the sequence of the degree
\* draws of SecretKey::rand().
PolynomialRand(secret, rnd) == <<secret>> \o rnd

\* shares.rs:236-245, Polynomial::evaluate by Horner's rule; k is the number of
\* coefficients still to fold.
RECURSIVE HornerSS(_, _, _, _)
HornerSS(a, x, k, partial) ==
  IF k = 0 THEN partial
  ELSE HornerSS(a, x, k - 1, AddSS(MulSS(partial, x), a[k]))

Evaluate(a, x) == HornerSS(a, x, Len(a) - 1, a[Len(a)])

\* shares.rs:211-220, Polynomial::shares.
Shares(a, n) == [j \in 1..n |-> [i |-> j, yi |-> Evaluate(a, FromInt(j))]]

\* The product of the scalars f[1..k].
RECURSIVE ProductSS(_, _)
ProductSS(f, k) == IF k = 0 THEN 1 ELSE MulSS(ProductSS(f, k - 1), f[k])

\* Polynomial::l_i with the denominator's difference taken the other way.
LiDifferenceSwapped(range, i) ==
  LET num   == ProductSS([j \in 1..Len(range) |-> IF j # i THEN range[j] ELSE 1],
                         Len(range))
      denum == ProductSS([j \in 1..Len(range) |->
                            IF j # i THEN SubSS(range[i], range[j]) ELSE 1],
                         Len(range))
  IN  MulSS(num, Invert(denum))

\* shares.rs:222-233, Polynomial::l_i (i counted from 1).
Li(range, i) ==
  LET num   == ProductSS([j \in 1..Len(range) |-> IF j # i THEN range[j] ELSE 1],
                         Len(range))
      denum == ProductSS([j \in 1..Len(range) |->
                            IF j # i THEN SubSS(range[j], range[i]) ELSE 1],
                         Len(range))
  IN  MulSS(num, Invert(denum))

\* The sum of the scalars, or of the points, f[1..k].
RECURSIVE SumQ(_, _)
SumQ(f, k) == IF k = 0 THEN 0 ELSE AddSS(SumQ(f, k - 1), f[k])

\* shares.rs:134-145, ShareVector::recover.
ShareVectorRecover(v) ==
  LET range == [k \in 1..Len(v) |-> FromInt(v[k].i)]
  IN  SumQ([k \in 1..Len(v) |-> MulSS(Li(range, k), v[k].yi)], Len(v))

\* shares.rs:68-74, Share * PublicKey.
MulShareP(sh, P) == [i |-> sh.i, Yi |-> MulSP(sh.yi, P)]

\* keys.rs:241-246, PublicKey - PublicKey.
SubPP(P, R) == (P + Q - R) % Q

\* shares.rs:36-41, Share + SecretKey; 53-58, Share - SecretKey; 61-66,
\* Share * SecretKey.
AddShareS(sh, k) == [i |-> sh.i, yi |-> AddSS(sh.yi, k)]
SubShareS(sh, k) == [i |-> sh.i, yi |-> SubSS(sh.yi, k)]
MulShareS(sh, k) == [i |-> sh.i, yi |-> MulSS(sh.yi, k)]

\* shares.rs:95-100, PublicShare + PublicKey; 112-117, PublicShare - PublicKey;
\* 120-125, PublicShare * SecretKey.
AddPublicShareP(S, P) == [i |-> S.i, Yi |-> AddPP(S.Yi, P)]
SubPublicShareP(S, P) == [i |-> S.i, Yi |-> SubPP(S.Yi, P)]
MulPublicShareS(S, k) == [i |-> S.i, Yi |-> MulSP(k, S.Yi)]

\* shares.rs:187-192, Polynomial * SecretKey; 262-267, PublicPolynomial *
\* SecretKey.
MulPolynomialS(a, k) == [j \in 1..Len(a) |-> MulSS(a[j], k)]
MulPublicPolynomialS(A, k) == [j \in 1..Len(A) |-> MulSP(k, A[j])]

\* macros.rs:55-60, the other ordering that add_variants! gives with
\* Commutative (shares.rs:35 and 94): rhs + lhs is lhs - rhs.
AddSShare(k, sh) == SubShareS(sh, k)
AddPPublicShare(P, S) == SubPublicShareP(S, P)

\* macros.rs:190-195, the other ordering that mul_variants! gives with
\* Commutative (keys.rs:173, shares.rs:60, 68, 119, 186, 194, 261): rhs * lhs is
\* lhs * rhs.
MulPS(P, s) == MulSP(s, P)
MulSShare(k, sh) == MulShareS(sh, k)
MulPShare(P, sh) == MulShareP(sh, P)
MulSPublicShare(k, S) == MulPublicShareS(S, k)
MulSPolynomial(k, a) == MulPolynomialS(a, k)
MulSPublicPolynomial(k, A) == MulPublicPolynomialS(A, k)

\* shares.rs:148-155, ShareVector * PublicKey.
MulVectorP(v, P) == [k \in 1..Len(v) |-> MulShareP(v[k], P)]

\* shares.rs:164-175, PublicShareVector::recover.
PublicShareVectorRecover(V) ==
  LET range == [k \in 1..Len(V) |-> FromInt(V[k].i)]
  IN  SumQ([k \in 1..Len(V) |-> MulSP(Li(range, k), V[k].Yi)], Len(V))

\* shares.rs:194-200, Polynomial * PublicKey.
MulPolynomialP(a, P) == [k \in 1..Len(a) |-> MulSP(a[k], P)]

MulPPolynomial(P, a) == MulPolynomialP(a, P)

\* shares.rs:276-285, PublicPolynomial::evaluate by Horner's rule.
RECURSIVE HornerP(_, _, _, _)
HornerP(A, x, k, partial) ==
  IF k = 0 THEN partial
  ELSE HornerP(A, x, k - 1, AddPP(MulSP(x, partial), A[k]))

PublicEvaluate(A, x) == HornerP(A, x, Len(A) - 1, A[Len(A)])

\* PublicPolynomial::verify evaluating at the index before the share's.
PublicVerifyAtIndexBefore(A, share) ==
  share.Yi = PublicEvaluate(A, FromInt(share.i - 1))

\* shares.rs:269-274, PublicPolynomial::verify.
PublicVerify(A, share) == share.Yi = PublicEvaluate(A, FromInt(share.i))

-----------------------------------------------------------------------------
(* crypto/encrypt.rs : AES-CBC under the first 16 bytes of a lambda key *)

\* encrypt.rs:21-38 encryptor(AesCbc128, key, to) and the writer's write_all:
\* the writer draws the IV and writes it before the encrypted blocks.
Encrypt(lambda, iv, m) == <<-3>> \o K128(lambda) \o <<-4>> \o iv \o m \o <<-5>>

\* encrypt.rs:40-57 decryptor(AesCbc128, key, from) and read_to_end: the
\* plaintext when the ciphertext was written under this key, an error
\* otherwise.
Decrypt(lambda, ct) ==
  LET key == K128(lambda)
      n   == Len(key)
  IN  IF /\ Len(ct) >= n + 4
         /\ ct[1] = -3
         /\ SubSeq(ct, 2, n + 1) = key
         /\ ct[n + 2] = -4
         /\ ct[Len(ct)] = -5
      THEN [ok |-> TRUE, val |-> SubSeq(ct, n + 4, Len(ct) - 1)]
      ELSE [ok |-> FALSE, val |-> <<>>]

-----------------------------------------------------------------------------
(* model/records.rs *)

\* keys.rs:27-28, enum KeySize, by variant index.
KeySizes == <<"S128", "S192", "S256", "S512">>

KeySizeTag(ks) == CHOOSE i \in 1..Len(KeySizes) : KeySizes[i] = ks

\* keys.rs:30-39, KeySize::size.
KeySizeSize(ks) ==
  CASE ks = "S128" -> 128
    [] ks = "S192" -> 192
    [] ks = "S256" -> 256
    [] ks = "S512" -> 512

\* rand(size), called at records.rs:38 and 43 with ksize.size(): size / 8 fresh
\* bytes, each drawn here as fill.
RandBytes(size, fill) == [i \in 1..(size \div 8) |-> fill]

\* records.rs:8-15, salt(id, table).
Salt(id, table) == Sha512(id \o table)

\* records.rs:37-40, RData::head; dn is the draw of rand(ksize.size()).
\* An absent lprev is the empty sequence, a present one a sequence of one.
RDataHead(ksize, dn, hfile) ==
  [lprev |-> <<>>, dref |-> [ksize |-> "S128", dn |-> dn, hfile |-> hfile]]

\* records.rs:42-45, RData::tail.
RDataTail(ksize, lprev, dn, hfile) ==
  [lprev |-> <<lprev>>, dref |-> [ksize |-> "S128", dn |-> dn, hfile |-> hfile]]

\* bincode::serialize of an RData (records.rs:30-34, 20-25): the option's tag
\* and the length-prefixed key, the variant index, the length-prefixed byte
\* vectors.
SerializeRData(rd) ==
  (IF rd.lprev = <<>> THEN <<0>> ELSE <<1, Len(rd.lprev[1])>> \o rd.lprev[1])
  \o <<KeySizeTag(rd.dref.ksize) - 1>>
  \o <<Len(rd.dref.dn)>> \o rd.dref.dn
  \o <<Len(rd.dref.hfile)>> \o rd.dref.hfile

\* bincode::deserialize of an RData (records.rs:83): an error when the bytes
\* end early or a tag is none of the type's.
DeserializeRData(b) ==
  LET bad  == [ok |-> FALSE, val |-> RDataHead("S128", <<>>, <<>>)]
      some == Len(b) >= 1 /\ b[1] = 1
      l1   == IF some /\ Len(b) >= 2 /\ b[2] >= 0 THEN b[2] ELSE 0
      off  == IF some THEN 2 + l1 ELSE 1
  IN  IF \/ Len(b) < 1
         \/ b[1] \notin {0, 1}
         \/ (some /\ (Len(b) < 2 \/ b[2] < 0))
         \/ Len(b) < off + 2
         \/ b[off + 1] \notin 0..(Len(KeySizes) - 1)
         \/ b[off + 2] < 0
      THEN bad
      ELSE LET ldn == b[off + 2]
           IN  IF Len(b) < off + 3 + ldn \/ b[off + 3 + ldn] < 0
               THEN bad
               ELSE LET lh == b[off + 3 + ldn]
                    IN  IF Len(b) < off + 3 + ldn + lh
                        THEN bad
                        ELSE [ok  |-> TRUE,
                              val |-> [lprev |-> IF some THEN <<SubSeq(b, 3, 2 + l1)>> ELSE <<>>,
                                       dref  |-> [ksize |-> KeySizes[b[off + 1] + 1],
                                                  dn    |-> SubSeq(b, off + 3, off + 2 + ldn),
                                                  hfile |-> SubSeq(b, off + 4 + ldn,
                                                                   off + 3 + ldn + lh)]]]

\* REncData::new publishing k * ekey in place of kn = k * G.
REncDataNewPublishesAlpha(ekey, salt, rd, k, iv) ==
  LET alpha  == MulSP(k, ekey)
      lambda == LambdaKeyNew(alpha, salt)
  IN  [lambda |-> lambda,
       data   |-> [kn |-> alpha,
                   ciphertext |-> Encrypt(lambda, iv, SerializeRData(rd))]]

\* records.rs:58-73, REncData::new; k is the draw of SecretKey::rand(), iv the
\* writer's.
REncDataNew(ekey, salt, rd, k, iv) ==
  LET alpha  == MulSP(k, ekey)
      lambda == LambdaKeyNew(alpha, salt)
  IN  [lambda |-> lambda,
       data   |-> [kn |-> MulSP(k, G),
                   ciphertext |-> Encrypt(lambda, iv, SerializeRData(rd))]]

\* records.rs:75-85, REncData::data.
REncDataData(red, lambda) ==
  LET pt == Decrypt(lambda, red.ciphertext)
  IN  IF pt.ok THEN DeserializeRData(pt.val)
      ELSE [ok |-> FALSE, val |-> RDataHead("S128", <<>>, <<>>)]

\* bincode::serialize of an REncData (records.rs:125, 51-55).
SerializeREncData(red) ==
  PointBytes(red.kn) \o <<Len(red.ciphertext)>> \o red.ciphertext

\* Record::hash leaving hprev out of the digest.
RecordHashOfDataOnly(hprev, red) == Sha512(SerializeREncData(red))

\* records.rs:124-132, Record::hash.
RecordHash(hprev, red) == Sha512(hprev \o SerializeREncData(red))

\* records.rs:134-140, Record::create.
RecordCreate(keyp, ekey, hprev, salt, rd, k, iv) ==
  LET enc   == REncDataNew(ekey, salt, rd, k, iv)
      dhash == RecordHash(hprev, enc.data)
  IN  [lambda |-> enc.lambda,
       rec    |-> [hprev |-> hprev, data |-> enc.data, sig |-> ExtSign(keyp, dhash)]]

\* records.rs:107-109, Record::head.
RecordHead(keyp, ekey, salt, rd, k, iv) ==
  RecordCreate(keyp, ekey, salt, salt, rd, k, iv)

\* records.rs:111-113, Record::tail.
RecordTail(keyp, ekey, hprev, salt, rd, k, iv) ==
  RecordCreate(keyp, ekey, hprev, salt, rd, k, iv)

\* Record::check returning the hash without verifying the signature.
RecordCheckNoVerify(r) == [ok |-> TRUE, dhash |-> RecordHash(r.hprev, r.data)]

\* records.rs:115-122, Record::check.
RecordCheck(r) ==
  LET dhash == RecordHash(r.hprev, r.data)
  IN  IF ~ExtVerify(r.sig, dhash)
      THEN [ok |-> FALSE, dhash |-> <<>>]
      ELSE [ok |-> TRUE, dhash |-> dhash]

\* records.rs:103-105, Record::data.
RecordData(r, lambda) == REncDataData(r.data, lambda)

-----------------------------------------------------------------------------
(* fdc-client-api/src/lib.rs : RecordChain *)

ErrInvalidSignature == "Invalid record signature!"
ErrNotHead == "Record is not a head type!"
ErrNotTail == "Record is not a tail type!"
ErrBrokenChain == "Incorrect hash chain!"
ErrData == "REncData::data failed"
Panic == "panic"

\* No chain constructed yet.
NoChain == [id |-> <<>>, table |-> <<>>, lhash |-> <<>>, chain |-> <<>>]

\* lib.rs:46 reads tail.hprev as an Option; the hprev of a Record
\* (records.rs:93) is a byte vector, which is always present.
HprevOf(r) == <<r.hprev>>

\* RecordChain::new starting lhash at the head's hprev in place of its hash.
RecordChainNewLhashIsHprev(head, headId, id, table) ==
  LET chk == RecordCheck(head)
  IN  IF ~chk.ok THEN [err |-> ErrInvalidSignature, chain |-> NoChain]
      ELSE IF headId = <<>> THEN [err |-> ErrNotHead, chain |-> NoChain]
      ELSE [err |-> "Ok",
            chain |-> [id |-> id, table |-> table, lhash |-> head.hprev, chain |-> <<head>>]]

\* lib.rs:34-41, RecordChain::new.  headId is the head.id that line 36 reads
\* (absent: <<>>); (id, table) are the values of the chain's fields of these
\* names, which lines 34-41 neither take from the record nor compare with it.
RecordChainNew(head, headId, id, table) ==
  LET chk == RecordCheck(head)
  IN  IF ~chk.ok THEN [err |-> ErrInvalidSignature, chain |-> NoChain]
      ELSE IF headId = <<>> THEN [err |-> ErrNotHead, chain |-> NoChain]
      ELSE [err |-> "Ok",
            chain |-> [id |-> id, table |-> table, lhash |-> chk.dhash, chain |-> <<head>>]]

\* RecordChain::push without the comparison of lhash with tail.hprev.
RecordChainPushNoLink(self, tail) ==
  LET chk == RecordCheck(tail)
  IN  IF ~chk.ok THEN [err |-> ErrInvalidSignature, chain |-> self]
      ELSE [err |-> "Ok",
            chain |-> [self EXCEPT !.lhash = chk.dhash, !.chain = Append(self.chain, tail)]]

\* RecordChain::push without the assignment of lhash.
RecordChainPushKeepsLhash(self, tail) ==
  LET chk == RecordCheck(tail)
  IN  IF ~chk.ok THEN [err |-> ErrInvalidSignature, chain |-> self]
      ELSE IF self.lhash # tail.hprev THEN [err |-> ErrBrokenChain, chain |-> self]
      ELSE [err |-> "Ok", chain |-> [self EXCEPT !.chain = Append(self.chain, tail)]]

\* RecordChain::push assigning lhash before the comparison with tail.hprev.
RecordChainPushEarlyLhash(self, tail) ==
  LET chk == RecordCheck(tail)
  IN  IF ~chk.ok THEN [err |-> ErrInvalidSignature, chain |-> self]
      ELSE IF self.lhash # tail.hprev
           THEN [err |-> ErrBrokenChain, chain |-> [self EXCEPT !.lhash = chk.dhash]]
      ELSE [err |-> "Ok",
            chain |-> [self EXCEPT !.lhash = chk.dhash, !.chain = Append(self.chain, tail)]]

\* RecordChain::push inserting the tail at the front of the list.
RecordChainPushFront(self, tail) ==
  LET chk == RecordCheck(tail)
  IN  IF ~chk.ok THEN [err |-> ErrInvalidSignature, chain |-> self]
      ELSE IF self.lhash # tail.hprev THEN [err |-> ErrBrokenChain, chain |-> self]
      ELSE [err |-> "Ok",
            chain |-> [self EXCEPT !.lhash = chk.dhash, !.chain = <<tail>> \o self.chain]]

\* lib.rs:43-55, RecordChain::push.
RecordChainPush(self, tail) ==
  LET chk == RecordCheck(tail)
      hp  == HprevOf(tail)
  IN  IF ~chk.ok THEN [err |-> ErrInvalidSignature, chain |-> self]
      ELSE IF hp = <<>> THEN [err |-> ErrNotTail, chain |-> self]
      ELSE IF self.lhash # hp[1] THEN [err |-> ErrBrokenChain, chain |-> self]
      ELSE [err |-> "Ok",
            chain |-> [self EXCEPT !.lhash = chk.dhash, !.chain = Append(self.chain, tail)]]

\* lib.rs:30-32, RecordChain::kn.
RecordChainKn(self) == self.chain[Len(self.chain)].data.kn

\* lib.rs:63-67, the loop of recover from record i down to the head: lambda is
\* the Option the loop carries, acc the list pushed so far (tail first).
RECURSIVE RecoverLoop(_, _, _, _)
RecoverLoop(self, i, lambda, acc) ==
  IF i = 0 THEN [err |-> "Ok", out |-> acc]
  ELSE IF lambda = <<>> THEN [err |-> Panic, out |-> <<>>]
  ELSE LET data == RecordData(self.chain[i], lambda[1])
       IN  IF ~data.ok THEN [err |-> ErrData, out |-> <<>>]
           ELSE RecoverLoop(self, i - 1, data.val.lprev, Append(acc, data.val.dref))

Reverse(q) == [i \in 1..Len(q) |-> q[Len(q) + 1 - i]]

\* lib.rs:57-71, RecordChain::recover.
RecordChainRecover(self, alpha) ==
  LET lambda == <<LambdaKeyNew(alpha, Salt(self.id, self.table))>>
      res    == RecoverLoop(self, Len(self.chain), lambda, <<>>)
  IN  [err |-> res.err, out |-> Reverse(res.out)]

-----------------------------------------------------------------------------
(* The callers of the chain: the writer of records and the reader *)

VARIABLES
  rc,   \* the RecordChain (NoChain before new succeeds)
  wr,   \* what the writer knows of each record of rc.chain: the arguments it
        \* gave Record::head or Record::tail, the payload and the lambda returned
  op    \* the last call: its name, its result, the record presented (in), the
        \* value returned (out) and, for recover, the secret alpha came from

vars == <<rc, wr, op>>

\* The master key pair (e, E = e * G) and another recipient's.
MasterKp == KeyPairOf(5)
OtherKp == KeyPairOf(6)
Recipients == {MasterKp.secret, OtherKp.secret}

\* The signer's key pair and another signer's.
SignerKp == KeyPairOf(3)
OtherSignerKp == KeyPairOf(4)

\* The subjects (id, table) of the model.
Subjects == {[id |-> <<1>>, table |-> <<3>>], [id |-> <<2>>, table |-> <<3>>]}

\* What one write draws and is given: the scalar of SecretKey::rand(), the
\* writer's IV, the bytes of rand(ksize.size()), and the caller's file locator.
FirstDraw == [k |-> 2, iv |-> <<50>>, dn |-> <<40>>, hfile |-> <<21>>]
Draws == {FirstDraw, [k |-> 9, iv |-> <<51>>, dn |-> <<41>>, hfile |-> <<22>>]}

Tampers == {"hprev", "kn", "ciphertext", "sig"}

\* A record as it reaches the chain: as created, or with one field changed
\* after it was signed ("relink": hprev replaced by the chain's lhash).
Tamper(r, kind, lhash) ==
  CASE kind = "none"       -> r
    [] kind = "hprev"      -> [r EXCEPT !.hprev = Sha512(r.hprev)]
    [] kind = "relink"     -> [r EXCEPT !.hprev = lhash]
    [] kind = "kn"         -> [r EXCEPT !.data.kn = AddPP(r.data.kn, G)]
    [] kind = "ciphertext" -> [r EXCEPT !.data.ciphertext = r.data.ciphertext \o <<0>>]
    [] kind = "sig"        -> [r EXCEPT !.sig.sig.p = AddSS(r.sig.sig.p, 1)]

\* The record a writer makes from its arguments w (RData::head or RData::tail,
\* then Record::head or Record::tail), with what the writer keeps of it.
Made(w, lhash) ==
  LET rd == IF w.lprev = <<>>
            THEN RDataHead(w.ksize, w.draw.dn, w.draw.hfile)
            ELSE RDataTail(w.ksize, w.lprev[1], w.draw.dn, w.draw.hfile)
      kp == KeyPairOf(w.signer)
      ek == MulSP(w.es, G)
      cr == IF w.head
            THEN RecordHead(kp, ek, w.salt, rd, w.draw.k, w.draw.iv)
            ELSE RecordTail(kp, ek, w.hprev, w.salt, rd, w.draw.k, w.draw.iv)
  IN  [w |-> w, rd |-> rd, lambda |-> cr.lambda, rec |-> Tamper(cr.rec, w.tamper, lhash)]

Note(m) == [w |-> m.w, rd |-> m.rd, lambda |-> m.lambda]

\* The plain write of a head for subject s with draw d: signed by the signer,
\* encrypted to the master key, hprev and salt the subject's salt.
HeadPlain(s, d) ==
  [head |-> TRUE, signer |-> SignerKp.secret, es |-> MasterKp.secret,
   hprev |-> Salt(s.id, s.table), salt |-> Salt(s.id, s.table), lprev |-> <<>>,
   ksize |-> "S128", draw |-> d, tamper |-> "none"]

HeadBase(s) == {HeadPlain(s, d) : d \in Draws}

\* The writes of a head for subject s: the plain one for each draw, and the plain
\* one of the first draw with one argument changed or one field tampered with.
HeadInputs(s) ==
  LET b == HeadPlain(s, FirstDraw)
  IN  HeadBase(s)
      \cup {[b EXCEPT !.es = OtherKp.secret], [b EXCEPT !.signer = OtherSignerKp.secret]}
      \cup {[b EXCEPT !.tamper = t] : t \in Tampers}

\* The plain write of a tail for the chain c with draw d: hprev the chain's
\* lhash, salt the subject's, lprev the lambda of the last record.
TailPlain(c, lastLambda, d) ==
  [head |-> FALSE, signer |-> SignerKp.secret, es |-> MasterKp.secret,
   hprev |-> c.lhash, salt |-> Salt(c.id, c.table), lprev |-> <<lastLambda>>,
   ksize |-> "S128", draw |-> d, tamper |-> "none"]

TailBase(c, lastLambda) == {TailPlain(c, lastLambda, d) : d \in Draws}

\* The writes of a tail for the chain c: the plain one for each draw, and the
\* plain one of the first draw with one argument changed or one field tampered
\* with.
TailInputs(c, lastLambda) ==
  LET b == TailPlain(c, lastLambda, FirstDraw)
  IN  TailBase(c, lastLambda)
      \cup {[b EXCEPT !.es = OtherKp.secret],
            [b EXCEPT !.salt = c.lhash],
            [b EXCEPT !.lprev = <<>>],
            [b EXCEPT !.lprev = <<LambdaKeyNew(G, b.salt)>>],
            [b EXCEPT !.hprev = c.chain[1].hprev],
            [b EXCEPT !.hprev = c.chain[1].hprev, !.tamper = "relink"]}
      \cup {[b EXCEPT !.tamper = t] : t \in Tampers}

Init ==
  /\ rc = NoChain
  /\ wr = <<>>
  /\ op = [name |-> "init", result |-> "Ok", in |-> <<>>, out |-> <<>>, secret |-> 0]

\* What new leaves behind: the chain r.chain for the record m presented.
NewEnds(m, r) ==
  /\ rc' = r.chain
  /\ wr' = IF r.err = "Ok" THEN <<Note(m)>> ELSE wr
  /\ op' = [name |-> "new", result |-> r.err, in |-> <<m>>, out |-> <<>>, secret |-> 0]

NewOf(m, headId, s) == NewEnds(m, RecordChainNew(m.rec, headId, s.id, s.table))

\* RecordChain::new(head) for the subject s, the head made from w, head.id
\* being headId.
New(s, w, headId) ==
  /\ rc = NoChain
  /\ NewOf(Made(w, <<>>), headId, s)

\* What push leaves behind.
PushEnds(m, r) ==
  /\ rc' = r.chain
  /\ wr' = IF r.err = "Ok" THEN Append(wr, Note(m)) ELSE wr
  /\ op' = [name |-> "push", result |-> r.err, in |-> <<m>>, out |-> <<>>, secret |-> 0]

PushOf(m) == PushEnds(m, RecordChainPush(rc, m.rec))

\* chain.push(tail), the tail made from w.
Push(w) ==
  /\ rc # NoChain
  /\ Len(rc.chain) < MaxChain
  /\ PushOf(Made(w, rc.lhash))

\* chain.recover(alpha), the caller computing alpha = x * chain.kn() from a
\* secret x it holds.
Recover(x) ==
  /\ rc # NoChain
  /\ LET r == RecordChainRecover(rc, MulSP(x, RecordChainKn(rc)))
     IN  op' = [name |-> "recover", result |-> r.err, in |-> <<>>, out |-> r.out,
                secret |-> x]
  /\ UNCHANGED <<rc, wr>>

\* chain.kn().
Kn ==
  /\ rc # NoChain
  /\ op' = [name |-> "kn", result |-> "Ok", in |-> <<>>, out |-> <<RecordChainKn(rc)>>,
            secret |-> 0]
  /\ UNCHANGED <<rc, wr>>

Next ==
  \/ \E s \in Subjects, t \in Subjects, id \in {<<>>, <<1>>} :
       \E w \in HeadInputs(t) : New(s, w, id)
  \/ /\ rc # NoChain
     /\ \E w \in TailInputs(rc, wr[Len(wr)].lambda) : Push(w)
  \/ \E s \in Subjects : \E w \in HeadBase(s) : Push(w)
  \/ \E x \in Recipients : Recover(x)
  \/ Kn

Spec == Init /\ [][Next]_vars

-----------------------------------------------------------------------------
(* Calls of the functions of fdc-core, each applied once to arguments drawn
   at the start; op holds the call: before it is made, name "call" with the
   function in result and the arguments in in, after it the function in name
   and what it returned in out. *)

Call(fn, args) == [name |-> "call", result |-> fn, in |-> args, out |-> <<>>, secret |-> 0]

Returned(out) == [name |-> op.result, result |-> "Ok", in |-> op.in, out |-> out, secret |-> 0]

Calling(fn) == op.name = "call" /\ op.result = fn

\* The secrets and the digests of the calls.
Secrets == (0..MaxSecret) \cup {Q - 1}
Digests == {Sha512(<<b>>) : b \in 0..MaxDigest}

\* ExtSignature::sign(kp, dhash), then verify(dhash) of what it returned.
SignCalls == {Call("sign", <<KeyPairOf(s), d>>) : s \in Secrets, d \in Digests}

Sign ==
  /\ Calling("sign")
  /\ LET es == ExtSign(op.in[1], op.in[2])
     IN  op' = Returned(<<es, ExtVerify(es, op.in[2])>>)
  /\ UNCHANGED <<rc, wr>>

\* ExtSignature::verify(dhash) of a signature made over another digest or the
\* same.
VerifyCalls ==
  {Call("verify", <<ExtSign(KeyPairOf(s), d1), d1, d2>>) :
     s \in Secrets, d1 \in Digests, d2 \in Digests}

Verify ==
  /\ Calling("verify")
  /\ op' = Returned(<<ExtVerify(op.in[1], op.in[3]),
                      SignatureVerify(op.in[1].sig, op.in[1].key, op.in[3])>>)
  /\ UNCHANGED <<rc, wr>>

\* The draws of Polynomial::rand for degree t: two sequences of t scalars, the
\* second ending in the coefficient 0.
RandDraws(t) ==
  {[j \in 1..t |-> 7 + j], [j \in 1..t |-> IF j = t THEN 0 ELSE Q - j]}

\* The polynomials of Polynomial::rand(s, t).
Polynomials ==
  UNION {{PolynomialRand(s, rnd) : s \in {0, MaxSecret, Q - 1}, rnd \in RandDraws(t)} :
           t \in 0..MaxDegree}

Parties(a) == 3 * (Len(a) - 1) + 1

\* The members of the set of indices I in ascending order, and in descending.
Ascending(I) ==
  LET In(x) == x \in I
  IN  SelectSeq([x \in 1..(3 * MaxDegree + 1) |-> x], In)

Descending(I) ==
  LET up == Ascending(I)
  IN  [k \in 1..Len(up) |-> up[Len(up) + 1 - k]]

\* The vector made of the shares all with the indices I, in ascending order
\* or in descending.
VectorOf(all, I, ascending) ==
  LET order == IF ascending THEN Ascending(I) ELSE Descending(I)
  IN  [k \in 1..Len(order) |-> all[order[k]]]

\* The sets of at least t + 1 of the indices of the parties of a.
IndexSets(a) == {J \in SUBSET (1..Parties(a)) : Cardinality(J) >= Len(a)}

\* ShareVector::recover of at least t + 1 of the shares of the polynomial a,
\* and PublicShareVector::recover of their images under G.
RecoverCalls(a) ==
  {Call("recover", <<a, VectorOf(Shares(a, Parties(a)), I, ascending)>>) :
     I \in IndexSets(a), ascending \in BOOLEAN}

RecoverShares ==
  /\ Calling("recover")
  /\ op' = Returned(<<ShareVectorRecover(op.in[2]),
                      PublicShareVectorRecover(MulVectorP(op.in[2], G))>>)
  /\ UNCHANGED <<rc, wr>>

\* The points a polynomial is multiplied by.
Points == {MulSP(s, G) : s \in {0, 1, MaxSecret}}

\* The public shares presented for the index i of the polynomial a under P: the
\* image of the share generated for i, and ones of the same index with another
\* Yi (moved by G, the identity, the image of the next index's share).
PublicSharesFor(a, P, i) ==
  LET sh == MulShareP(Shares(a, Parties(a))[i], P)
  IN  {sh,
       [sh EXCEPT !.Yi = AddPP(sh.Yi, G)],
       [sh EXCEPT !.Yi = 0],
       [sh EXCEPT !.Yi = MulSP(Evaluate(a, FromInt(i + 1)), P)]}

\* (poly * P).verify(share).
VerifyShareCalls ==
  UNION {UNION {{Call("verify_share", <<a, P, sh>>) : sh \in PublicSharesFor(a, P, i)} :
                  i \in 1..Parties(a)} :
           a \in Polynomials, P \in Points}

VerifyShare ==
  /\ Calling("verify_share")
  /\ op' = Returned(<<PublicVerify(MulPolynomialP(op.in[1], op.in[2]), op.in[3])>>)
  /\ UNCHANGED <<rc, wr>>

\* KeyPair::rand(), draw being the scalar of SecretKey::rand().
KeyPairRandCalls == {Call("keypair_rand", <<s>>) : s \in Secrets}

KeyPairRand ==
  /\ Calling("keypair_rand")
  /\ op' = Returned(<<KeyPairOf(op.in[1])>>)
  /\ UNCHANGED <<rc, wr>>

\* The texts given to load as the secret: the encodings of the secrets, and
\* texts decode refuses (empty, no base64, the bytes of no canonical scalar).
SecretTexts ==
  {SecretKeyEncode(s) : s \in Secrets}
  \cup {<<>>, <<64, 0, 0>>, <<0, 1>>, Base64Encode(<<Q>>)}

\* The texts given to load as the key: the encodings of the public keys of
\* the secrets, and texts decode refuses.
KeyTexts ==
  {PublicKeyEncode(MulSP(s, G)) : s \in Secrets}
  \cup {<<>>, <<0, 0, 64>>, Base64Encode(<<(2 * Q) + 1>>)}

\* KeyPair::load(secret, key).
LoadCalls == {Call("load", <<st, kt>>) : st \in SecretTexts, kt \in KeyTexts}

Load ==
  /\ Calling("load")
  /\ LET r == KeyPairLoad(op.in[1], op.in[2])
     IN  op' = [Returned(<<r.kp>>) EXCEPT !.result = r.err]
  /\ UNCHANGED <<rc, wr>>

\* The lambda keys of the calls.
Lambdas == {LambdaKeyNew(P, Salt(sb.id, sb.table)) : P \in Points, sb \in Subjects}

\* A SecretKey, and a LambdaKey, going out of scope.
DropCalls ==
  {Call("drop_secret", <<SecretKeyMemory(s)>>) : s \in Secrets}
  \cup {Call("drop_lambda", <<LambdaKeyMemory(l)>>) : l \in Lambdas}

DropSecret ==
  /\ Calling("drop_secret")
  /\ op' = Returned(<<SecretKeyDrop(op.in[1])>>)
  /\ UNCHANGED <<rc, wr>>

DropLambda ==
  /\ Calling("drop_lambda")
  /\ op' = Returned(<<LambdaKeyDrop(op.in[1]).buf>>)
  /\ UNCHANGED <<rc, wr>>

\* RData::head(ksize, hfile) and RData::tail(ksize, lprev, hfile); fill is the
\* byte that rand draws.
RDataCalls ==
  {Call("rdata_head", <<ks, hf, fill>>) :
     ks \in {KeySizes[n] : n \in 1..Len(KeySizes)}, hf \in {<<>>, <<21>>}, fill \in {0, 255}}
  \cup {Call("rdata_tail", <<ks, hf, fill, l>>) :
     ks \in {KeySizes[n] : n \in 1..Len(KeySizes)}, hf \in {<<>>, <<21>>}, fill \in {0, 255},
     l \in Lambdas}

RDataHeadCall ==
  /\ Calling("rdata_head")
  /\ op' = Returned(<<RDataHead(op.in[1], RandBytes(KeySizeSize(op.in[1]), op.in[3]),
                                op.in[2])>>)
  /\ UNCHANGED <<rc, wr>>

RDataTailCall ==
  /\ Calling("rdata_tail")
  /\ op' = Returned(<<RDataTail(op.in[1], op.in[4],
                                RandBytes(KeySizeSize(op.in[1]), op.in[3]), op.in[2])>>)
  /\ UNCHANGED <<rc, wr>>

\* The operators of two orderings applied to a scalar k, a point P, a share sh
\* and a polynomial a (and the images of sh and a under G), in both orderings.
OperatorCalls ==
  {Call("operators", <<k, P, [i |-> i, yi |-> y], a>>) :
     k \in Secrets, P \in Points, i \in 1..2, y \in {0, MaxSecret, Q - 1},
     a \in {<<2>>, <<Q - 1, 0, 7>>}}

Operators ==
  /\ Calling("operators")
  /\ LET k   == op.in[1]
         P   == op.in[2]
         sh  == op.in[3]
         a   == op.in[4]
         psh == MulShareP(sh, G)
         pa  == MulPolynomialP(a, G)
     IN  op' = Returned(<<
           [lhs |-> AddShareS(sh, k),              rhs |-> AddSShare(k, sh)],
           [lhs |-> AddPublicShareP(psh, P),       rhs |-> AddPPublicShare(P, psh)],
           [lhs |-> MulSP(k, P),                   rhs |-> MulPS(P, k)],
           [lhs |-> MulShareS(sh, k),              rhs |-> MulSShare(k, sh)],
           [lhs |-> MulShareP(sh, P),              rhs |-> MulPShare(P, sh)],
           [lhs |-> MulPublicShareS(psh, k),       rhs |-> MulSPublicShare(k, psh)],
           [lhs |-> MulPolynomialS(a, k),          rhs |-> MulSPolynomial(k, a)],
           [lhs |-> MulPolynomialP(a, P),          rhs |-> MulPPolynomial(P, a)],
           [lhs |-> MulPublicPolynomialS(pa, k),   rhs |-> MulSPublicPolynomial(k, pa)]>>)
  /\ UNCHANGED <<rc, wr>>

ApiCalls == SignCalls \cup VerifyCalls \cup VerifyShareCalls
  \cup KeyPairRandCalls \cup LoadCalls
  \cup DropCalls \cup RDataCalls \cup OperatorCalls

ApiInit ==
  /\ rc = NoChain
  /\ wr = <<>>
  /\ op \in ApiCalls \cup UNION {RecoverCalls(a) : a \in Polynomials}

ApiNext ==
  \/ Sign
  \/ Verify
  \/ RecoverShares
  \/ VerifyShare
  \/ KeyPairRand
  \/ Load
  \/ DropSecret
  \/ DropLambda
  \/ RDataHeadCall
  \/ RDataTailCall
  \/ Operators

ApiSpec == ApiInit /\ [][ApiNext]_vars

-----------------------------------------------------------------------------
(* Properties of the chain *)

IsPrefix(p, q) == Len(p) <= Len(q) /\ SubSeq(q, 1, Len(p)) = p

\* Record r's signature verifies over SHA-512(hprev || serialize(data)).
SigOk(r) == ExtVerify(r.sig, RecordHash(r.hprev, r.data))

\* The record presented by the last call.
Presented == op.in[1].rec

\* C1: after new and any pushes, successful or failing, every record after the
\* head carries in hprev the hash of the record before it, and lhash is the hash
\* of the last record.
C1_HashLinked ==
  rc # NoChain =>
    /\ \A k \in 2..Len(rc.chain) :
         rc.chain[k].hprev = RecordHash(rc.chain[k - 1].hprev, rc.chain[k - 1].data)
    /\ rc.lhash = RecordHash(rc.chain[Len(rc.chain)].hprev, rc.chain[Len(rc.chain)].data)

\* A chain of two linked records that a push has just extended.
C1_Witness ==
  /\ Len(rc.chain) >= 2
  /\ op.name = "push"
  /\ rc.chain[2].hprev = RecordHash(rc.chain[1].hprev, rc.chain[1].data)

\* C2: a push of a tail whose check succeeds is accepted exactly when
\* tail.hprev = lhash; otherwise it fails with the broken-chain error; when it is
\* accepted, lhash becomes the hash check returns and tail ends the chain.
C2_PushStep ==
  (op'.name = "push" /\ SigOk(op'.in[1].rec)) =>
    /\ (op'.result = "Ok") <=> (op'.in[1].rec.hprev = rc.lhash)
    /\ op'.in[1].rec.hprev # rc.lhash => op'.result = ErrBrokenChain
    /\ op'.result = "Ok" =>
         /\ rc'.lhash = RecordHash(op'.in[1].rec.hprev, op'.in[1].rec.data)
         /\ rc'.chain = Append(rc.chain, op'.in[1].rec)

C2_PushAcceptsIffLinked == [][C2_PushStep]_vars

\* An accepted push: lhash is what check returns for the tail now ending the chain.
C2_Witness ==
  /\ op.name = "push"
  /\ op.result = "Ok"
  /\ rc.chain[Len(rc.chain)] = Presented
  /\ rc.lhash = RecordHash(Presented.hprev, Presented.data)

\* C3: new succeeds only for a head whose hprev is salt(id, table), so the first
\* record of every chain carries the salt of the chain's subject (I1).
C3_HeadHprevIsSalt ==
  rc # NoChain => rc.chain[1].hprev = Salt(rc.id, rc.table)

\* C4: every record of a chain is validly signed, and new and push return the
\* invalid-signature error for a record whose signature does not verify,
\* creating or extending nothing.
C4_Step ==
  /\ \A i \in 1..Len(rc'.chain) : SigOk(rc'.chain[i])
  /\ (op'.name \in {"new", "push"} /\ ~SigOk(op'.in[1].rec)) =>
       (op'.result = ErrInvalidSignature /\ rc' = rc)

C4_SignaturesVerify == [][C4_Step]_vars

\* A push of a record whose hprev was replaced by lhash after signing is refused
\* for its signature.
C4_Witness ==
  /\ op.name = "push"
  /\ op.in[1].w.tamper = "relink"
  /\ Presented.hprev = rc.lhash
  /\ op.result = ErrInvalidSignature

\* C5: a push that fails leaves id, table, lhash and the list as they were.
C5_Step == (op'.name = "push" /\ op'.result # "Ok") => rc' = rc

C5_FailedPushKeepsChain == [][C5_Step]_vars

\* A validly signed tail refused for its link, the chain still the head alone.
C5_Witness ==
  /\ op.name = "push"
  /\ op.result = ErrBrokenChain
  /\ ~op.in[1].w.head
  /\ Len(rc.chain) = 1

\* C6: a chain is append-only: every step keeps the list as a prefix of the
\* next, recover and kn leave it as it is, and it grows only by the record of a
\* successful push, at its end.
C6_Step ==
  rc # NoChain =>
    /\ rc' # NoChain
    /\ IsPrefix(rc.chain, rc'.chain)
    /\ op'.name \in {"recover", "kn"} => rc' = rc
    /\ rc'.chain # rc.chain =>
         /\ op'.name = "push"
         /\ op'.result = "Ok"
         /\ rc'.chain = Append(rc.chain, op'.in[1].rec)

C7_Step ==
  (op'.name = "push" /\ op'.in[1].w.head /\ op'.in[1].w.tamper = "none") =>
    /\ SigOk(op'.in[1].rec)
    /\ op'.in[1].rec.hprev = op'.in[1].w.salt
    /\ op'.result = ErrBrokenChain
    /\ rc' = rc

C7_PushOfHeadFails == [][C7_Step]_vars

\* The head of the chain's own subject pushed onto it again.
C7_Witness ==
  /\ op.name = "push"
  /\ op.in[1].w.head
  /\ Presented.hprev = Salt(rc.id, rc.table)
  /\ op.result = ErrBrokenChain

\* Record i of the chain as its writer made it for the master key E: encrypted
\* to E and, after the head, carrying in lprev the lambda of the record before.
WrittenForMaster(i) ==
  /\ wr[i].w.es = MasterKp.secret
  /\ wr[i].w.tamper = "none"
  /\ i >= 2 => wr[i].rd.lprev = <<wr[i - 1].lambda>>

\* The lprev that record k decrypts to under its own lambda.
LprevOf(k) == RecordData(rc.chain[k], wr[k].lambda).val.lprev

\* The salt of record j: salt(id, table) for the head, the hash of the record
\* before for a tail.
SaltOf(j) == IF j = 1 THEN Salt(rc.id, rc.table) ELSE rc.chain[j].hprev

\* C8: for a chain of N >= 1 records written under the master key (its head
\* carrying the subject's salt), recover with alpha derived from e returns the
\* N entries in the order of the chain, head first, the lprev each tail decrypts
\* to being the lambda of the record before it.
C8_RecoverReturnsAll ==
  ( /\ op.name = "recover"
    /\ op.secret = MasterKp.secret
    /\ rc.chain[1].hprev = Salt(rc.id, rc.table)
    /\ \A i \in 1..Len(rc.chain) : WrittenForMaster(i) )
  =>
  ( /\ op.result = "Ok"
    /\ op.out = [i \in 1..Len(rc.chain) |-> wr[i].rd.dref]
    /\ \A i \in 2..Len(rc.chain) : LprevOf(i) = <<wr[i - 1].lambda>> )

\* C9: a recovery that succeeds has found, for every record after the head, the
\* decrypted lprev equal to the lambda it derives for the record before,
\* LambdaKey(e * kn, salt), from the recipient's secret e; a mismatch makes
\* recovery fail.
C9_RecoverChecksLprev ==
  (op.name = "recover" /\ op.secret = MasterKp.secret /\ op.result = "Ok") =>
    \A k \in 2..Len(rc.chain) :
      LprevOf(k) =
        <<LambdaKeyNew(MulSP(op.secret, rc.chain[k - 1].data.kn), SaltOf(k - 1))>>

\* C10: a head made by Record::head(base, E, salt, rd1) from a draw k passes
\* check, its kn gives the recipient e * kn = k * E, and data under
\* LambdaKey(e * kn, salt) is rd1.
C10_HeadRoundTrip ==
  (op.name = "new" /\ op.in[1].w.head /\ op.in[1].w.tamper = "none") =>
    LET w     == op.in[1].w
        alpha == MulSP(w.es, Presented.data.kn)
    IN  /\ SigOk(Presented)
        /\ alpha = MulSP(w.draw.k, MulSP(w.es, G))
        /\ RecordData(Presented, LambdaKeyNew(alpha, w.salt)) =
             [ok |-> TRUE, val |-> op.in[1].rd]

\* A head written for the other recipient, as made, accepted by new.
C10_Witness ==
  /\ op.name = "new"
  /\ op.result = "Ok"
  /\ op.in[1].w.tamper = "none"
  /\ op.in[1].w.es = OtherKp.secret
  /\ rc.chain = <<Presented>>

\* C11: check binds the signature to hprev, kn and ciphertext: a record made by
\* Record::head or Record::tail with any one of the three changed after signing
\* fails check with the invalid-signature error, and the record as made passes
\* with dhash = SHA-512(hprev || serialize(data)).
C11_CheckBindsFields ==
  op.name \in {"new", "push"} =>
    /\ op.in[1].w.tamper \in {"hprev", "relink", "kn", "ciphertext"} =>
         /\ ~RecordCheck(Presented).ok
         /\ op.result = ErrInvalidSignature
    /\ op.in[1].w.tamper = "none" =>
         RecordCheck(Presented) =
           [ok |-> TRUE,
            dhash |-> Sha512(Presented.hprev \o SerializeREncData(Presented.data))]

\* A tail whose ciphertext was changed after signing, refused by push.
C11_Witness ==
  /\ op.name = "push"
  /\ op.in[1].w.tamper = "ciphertext"
  /\ Presented.hprev = rc.lhash
  /\ ~RecordCheck(Presented).ok
  /\ op.result = ErrInvalidSignature

\* C12: for a key pair (s, S = s * G) and a digest, sign gives (c, p) with
\* p = m - c * s, for which verify recomputes c * S + p * G = m * G and returns
\* true; the extended signature carries S, verifies, and its verify is
\* Signature::verify under the key it carries.
C12_SignVerifies ==
  op.name = "sign" =>
    LET kp == op.in[1]
        d  == op.in[2]
        es == op.out[1]
        m  == FromHash(Sha512(SecretBytes(kp.secret) \o d))
    IN  /\ kp.key = MulSP(kp.secret, G)
        /\ es.sig.p = SubSS(m, MulSS(es.sig.c, kp.secret))
        /\ AddPP(MulSP(es.sig.c, kp.key), MulSP(es.sig.p, G)) = MulSP(m, G)
        /\ SignatureVerify(es.sig, kp.key, d)
        /\ es.key = kp.key
        /\ op.out[2] = TRUE
        /\ op.out[2] = SignatureVerify(es.sig, es.key, d)

\* A signature of a secret other than 0 that has been verified.
C12_Witness ==
  /\ op.name = "sign"
  /\ op.in[1].secret = 2
  /\ op.out[1].sig.c # 0
  /\ op.out[2] = TRUE

\* C13: the signature made over dhash1 does not verify against a different
\* digest dhash2.
C13_OtherDigestFails ==
  (op.name = "verify" /\ op.in[2] # op.in[3]) => op.out[1] = FALSE

\* A signature verified against another digest than the one signed.
C13_Witness ==
  /\ op.name = "verify"
  /\ op.in[2] # op.in[3]
  /\ op.in[1] = ExtSign(KeyPairOf(2), op.in[2])
  /\ op.out[1] = FALSE

\* C14: a vector of at least t + 1 shares, of pairwise distinct indices, of a
\* polynomial of degree t made for the secret s recovers s, and the images of
\* these shares under G recover s * G.
C14_SharesRecoverSecret ==
  op.name = "recover" =>
    LET a == op.in[1]
        v == op.in[2]
    IN  ( /\ Len(v) >= Len(a)
          /\ \A k \in 1..Len(v) : v[k] = Shares(a, Parties(a))[v[k].i]
          /\ \A k, l \in 1..Len(v) : k # l => v[k].i # v[l].i )
        =>
        ( /\ op.out[1] = a[1]
          /\ op.out[2] = MulSP(a[1], G) )

\* Exactly t + 1 = 3 of the 7 shares of a polynomial drawn for degree 2 (its
\* last coefficient 0), not the first ones and not in ascending order,
\* recovering a secret other than 0.
C14_Witness ==
  /\ op.name = "recover"
  /\ Len(op.in[1]) = 3
  /\ op.in[1][3] = 0
  /\ Len(op.in[2]) = 3
  /\ op.in[2][1].i = 6
  /\ op.in[2][3].i = 2
  /\ op.out[1] = op.in[1][1]
  /\ op.out[1] # 0

\* C15: the public polynomial poly * P accepts the image under P of the share
\* generated for each index i of 1..n, and rejects every public share of index i
\* whose Yi is not its value at i.
C15_PublicVerify ==
  op.name = "verify_share" =>
    LET a  == op.in[1]
        P  == op.in[2]
        sh == op.in[3]
    IN  /\ sh.i \in 1..Parties(a)
        /\ sh = MulShareP(Shares(a, Parties(a))[sh.i], P) => op.out[1] = TRUE
        /\ sh.Yi # PublicEvaluate(MulPolynomialP(a, P), FromInt(sh.i)) =>
             op.out[1] = FALSE

\* The image of the fifth share of a polynomial of degree 2 accepted under a
\* point other than G.
C15_Witness ==
  /\ op.name = "verify_share"
  /\ Len(op.in[1]) = 3
  /\ op.in[2] \notin {0, G}
  /\ op.in[3].i = 5
  /\ op.in[3] = MulShareP(Shares(op.in[1], 7)[5], op.in[2])
  /\ op.in[3].Yi # 0
  /\ op.out[1] = TRUE

\* C16: every key pair that KeyPair::rand or a successful KeyPair::load returns
\* has key = secret * G.
C16_KeyPairInvariant ==
  (op.name \in {"keypair_rand", "load"} /\ op.result = "Ok") =>
    op.out[1].key = MulSP(op.out[1].secret, G)

\* C17: when a SecretKey or a LambdaKey goes out of scope, every byte of the
\* memory that held it is zero.
C17_ZeroisedOnDrop ==
  op.name \in {"drop_secret", "drop_lambda"} =>
    \A n \in 1..Len(op.out[1]) : op.out[1][n] = 0

\* C18: the RData that head and tail build keeps the ksize argument, with a dn
\* of ksize / 8 bytes and the hfile given; head has no lprev and tail the lprev
\* given.
C18_RDataKeepsKsize ==
  op.name \in {"rdata_head", "rdata_tail"} =>
    /\ op.out[1].dref.ksize = op.in[1]
    /\ Len(op.out[1].dref.dn) = KeySizeSize(op.in[1]) \div 8
    /\ op.out[1].dref.hfile = op.in[2]
    /\ op.name = "rdata_head" => op.out[1].lprev = <<>>
    /\ op.name = "rdata_tail" => op.out[1].lprev = <<op.in[4]>>

\* C19: the two orderings of each mixed-type operator give the same value:
\* k + s = s + k (index kept, yi = s.yi + k), P + S = S + P, and k * x = x * k
\* for a scalar with a point, a share, a public share, a polynomial and a
\* public polynomial, and for a point with a share and a polynomial.
C19_OrderingsAgree ==
  op.name = "operators" =>
    /\ \A n \in 1..Len(op.out) : op.out[n].rhs = op.out[n].lhs
    /\ op.out[1].lhs = [i |-> op.in[3].i, yi |-> AddSS(op.in[3].yi, op.in[1])]

====
